---- MODULE Spec2Model ----
(***************************************************************************)
(* VibAura playback engine: the playlist cursor of playerState.js, the     *)
(* controller of playerController.js (load / play / pause / skip /         *)
(* shuffle / repeat / progress / seek) and the <audio> element it drives.  *)
(* The <audio> element and the user are the environment: the play()        *)
(* promise settles at any later time, metadata arrives at any later time,  *)
(* Math.random() yields any value of [0,1).                                *)
(***************************************************************************)
EXTENDS Integers, Sequences, FiniteSets, TLC

\* ------------------------------------------------------------------ bounds
NumTracks == 2
MaxLen == 2
MaxQueueLen == 3
MaxPending == 2
MaxTimers == 2

Tracks == 1..NumTracks

\* The playlists a caller hands over: at most MaxLen songs, no song twice
\* (a one-song list already makes a skip reload the song that is playing).
Playlists ==
  UNION {{p \in [1..n -> Tracks] : \A i, j \in 1..n : p[i] = p[j] => i = j} :
           n \in 0..MaxLen}

\* ------------------------------------------------------- JavaScript values
\* NaN, as produced by `x % 0` and by arithmetic on NaN; also the <audio>
\* element's duration before its metadata is known.  It is a number no
\* arithmetic of the model produces.
NaN == -999

\* `undefined`: an out-of-range array read; also the empty audio.src.
Undefined == 0

IsNaN(x) == x = NaN

\* JavaScript a % b on numbers (the sign follows the dividend, % 0 is NaN).
JsRem(a, b) ==
  IF IsNaN(a) \/ IsNaN(b) \/ b = 0 THEN NaN
  ELSE IF a >= 0 THEN a % b ELSE -((-a) % b)

JsAdd(a, b) == IF IsNaN(a) \/ IsNaN(b) THEN NaN ELSE a + b

\* JavaScript array read arr[i], i a number (0-based).
At(arr, i) == IF (~IsNaN(i)) /\ i >= 0 /\ i < Len(arr) THEN arr[i + 1] ELSE Undefined

\* The values Math.floor(Math.random() * len) can take.
RandomIndexes(len) == IF len = 0 THEN {0} ELSE 0..(len - 1)

\* ------------------------------------------------------------- time, text
\* The length of a song's audio, as the <audio> element reports it once the
\* metadata is loaded (whole seconds, even, so that the seek fractions used
\* below land on whole seconds).
DurationOf(song) == song + song

MaxTime == DurationOf(NumTracks)

\* Slider positions a drag can produce (the bars range over 0..100).
DragValues == {0, 50, 100}

RECURSIVE Gcd(_, _)
Gcd(a, b) == IF b = 0 THEN a ELSE Gcd(b, a % b)

\* The exact quotient n / d as a reduced fraction <<num, den>>.
Frac(n, d) == LET g == Gcd(n, d) IN <<n \div g, d \div g>>

\* utils.js formatTime: "M:SS".  The text is the triple
\* <<minutes, tens digit or the pad "0", last digit(s)>>.
formatTime(seconds) ==
  LET flooredSeconds == seconds
      minutes == flooredSeconds \div 60
      secs == flooredSeconds % 60
  IN IF secs < 10 THEN <<minutes, 0, secs>> ELSE <<minutes, secs \div 10, secs % 10>>

\* ------------------------------------------------------------------- state
VARIABLES
  playlist,          \* playerState.js _playlist
  currentSongIndex,  \* playerState.js _currentSongIndex
  isShuffleOn,       \* playerState.js _isShuffleOn
  audio,             \* dom.audio: src, paused, ended, loop, currentTime, duration,
                     \* volume (in percent), failed (the load of src failed)
  pending,           \* play() promises not yet settled, oldest first
  mini,              \* what the mini-player shows
  fs,                \* what the fullscreen player shows
  isDragging,        \* playerController.js isDragging
  ev,                \* the handler that ran last, and its argument
  statusLog,         \* play/pause states written to the views by that handler
  threw,             \* that handler ended with an uncaught exception
  ret,               \* value returned by the last direct call of the state API
  runStart,          \* cursor before the current run of sequential nextSong
                     \* calls, or before the last prevSong call
  runCount,          \* length of that run
  toggleLog,         \* shuffle flag before each of the latest consecutive
                     \* toggleShuffle calls of the state API (the last two)
  fsOpen,            \* dom.fullscreenPlayer has the class "open"
  listening,         \* the three touch listeners are attached to it
  timers,            \* listener removals scheduled by setTimeout, not yet run
  closeTimer,        \* place among them of the one scheduled by the call that
                     \* closed the player (timers run oldest first), else 0
  touchstartY,       \* playerController.js touchstartY
  touchEndY,         \* playerController.js touchEndY
  finger             \* the touch in progress on the fullscreen player, if any

vars == <<playlist, currentSongIndex, isShuffleOn, audio, pending, mini, fs,
          isDragging, ev, statusLog, threw, ret, runStart, runCount,
          toggleLog, fsOpen, listening, timers, closeTimer, touchstartY,
          touchEndY, finger>>

queueVars == <<playlist, currentSongIndex, isShuffleOn>>
probeVars == <<ret, runStart, runCount, toggleLog>>
viewVars == <<fsOpen, listening, timers, closeTimer, touchstartY, touchEndY, finger>>

\* No touch in progress.
NoFinger == [down |-> FALSE, y |-> 0, target |-> "none"]

Event(name) == [name |-> name, stale |-> FALSE, len |-> 0]

InitView ==
  [track |-> Undefined, status |-> "Paused", disc |-> FALSE,
   progress |-> <<0, 1>>, timeCurrent |-> formatTime(0), timeTotal |-> formatTime(0),
   shuffle |-> FALSE, repeat |-> FALSE]

InitAudio ==
  [src |-> Undefined, paused |-> TRUE, ended |-> FALSE, loop |-> FALSE,
   currentTime |-> 0, duration |-> NaN, volume |-> 100, failed |-> FALSE]

Init ==
  /\ playlist = <<>>
  /\ currentSongIndex = 0
  /\ isShuffleOn = FALSE
  /\ audio = InitAudio
  /\ pending = <<>>
  /\ mini = InitView
  /\ fs = InitView
  /\ isDragging = FALSE
  /\ ev = Event("init")
  /\ statusLog = <<>>
  /\ threw = FALSE
  /\ ret = Undefined
  /\ runStart = 0
  /\ runCount = 0
  /\ toggleLog = <<>>
  /\ fsOpen = FALSE
  /\ listening = FALSE
  /\ timers = 0
  /\ closeTimer = 0
  /\ touchstartY = 0
  /\ touchEndY = 0
  /\ finger = NoFinger

\* ------------------------------------------------- playerState.js (Queue)
\* nextSong without the wrap-around: the modulo left out.
nextSongIndexNoWrap(idx, len, shuffle, k) ==
  IF shuffle THEN k ELSE JsAdd(idx, 1)

\* nextSong wrapping one position too late.
nextSongIndexOffByOne(idx, len, shuffle, k) ==
  IF shuffle THEN k ELSE JsRem(JsAdd(idx, 1), len + 1)

\* nextSong with a shuffle that never repeats the song at the cursor.
nextSongIndexNoRepeat(idx, len, shuffle, k) ==
  IF shuffle THEN (IF k = idx /\ len > 1 THEN JsRem(JsAdd(k, 1), len) ELSE k)
  ELSE JsRem(JsAdd(idx, 1), len)

\* state.nextSong: the new cursor; k is Math.floor(Math.random() * length).
nextSongIndex(idx, len, shuffle, k) ==
  IF shuffle THEN k ELSE JsRem(JsAdd(idx, 1), len)

\* prevSong without `+ length`: JavaScript's % keeps the sign of -1.
prevSongIndexNoWrap(idx, len) == JsRem(JsAdd(idx, -1), len)

\* prevSong leaving the sequence when shuffle is on.
prevSongIndexHonoursShuffle(idx, len) ==
  IF isShuffleOn THEN JsRem(JsAdd(idx, 1), len)
  ELSE JsRem(JsAdd(JsAdd(idx, -1), len), len)

\* state.prevSong: the new cursor.
prevSongIndex(idx, len) == JsRem(JsAdd(JsAdd(idx, -1), len), len)

\* state.getCurrentSong
getCurrentSong == At(playlist, currentSongIndex)

\* state.isPlaylistEmpty
isPlaylistEmpty == Len(playlist) = 0

\* ------------------------------------------ playerController.js (engine)
\* loadSong, the part that writes a view: title, artist and artwork of `song`.
loadSongView(v, song) == [v EXCEPT !.track = song]

\* A load that also clears the element's loop flag.
loadSongAudioResetsLoop(a, song) ==
  [a EXCEPT !.src = song, !.duration = NaN, !.currentTime = 0, !.ended = FALSE,
            !.failed = FALSE, !.loop = FALSE]

\* loadSong, `dom.audio.src = song.fileUrl`: the element starts loading the new
\* resource, at position 0 and with its duration unknown until the metadata
\* arrives.
loadSongAudio(a, song) ==
  [a EXCEPT !.src = song, !.duration = NaN, !.currentTime = 0, !.ended = FALSE,
            !.failed = FALSE]

\* dom.audio.play(), the synchronous part: the element is no longer paused
\* (an ended element restarts from 0); the promise is the caller's.
audioPlay(a) ==
  [a EXCEPT !.paused = FALSE, !.ended = FALSE,
            !.currentTime = IF a.ended THEN 0 ELSE @]

\* The icons and the disc as playSong's continuation sets them.
showPlaying(v) == [v EXCEPT !.status = "Playing", !.disc = TRUE]

\* The icons and the disc as pauseSong sets them.
showPaused(v) == [v EXCEPT !.status = "Paused", !.disc = FALSE]

\* A new load makes every promise still pending one of an earlier load.
markStale(p) == [i \in DOMAIN p |-> "stale"]

RemoveAt(p, i) == [j \in 1..(Len(p) - 1) |-> IF j < i THEN p[j] ELSE p[j + 1]]

\* loadSong(song); playSong() up to its await.  loadSong reads song.artists
\* first: with song undefined that read throws a TypeError before anything is
\* written, and the exception leaves the handler.
loadAndPlay(song) ==
  IF song = Undefined
  THEN /\ threw' = TRUE
       /\ UNCHANGED <<audio, pending, mini, fs>>
  ELSE /\ Len(pending) < MaxPending
       /\ threw' = FALSE
       /\ mini' = loadSongView(mini, song)
       /\ fs' = loadSongView(fs, song)
       /\ audio' = audioPlay(loadSongAudio(audio, song))
       /\ pending' = Append(markStale(pending), "current")

\* pauseSong()
pauseSong ==
  /\ audio' = [audio EXCEPT !.paused = TRUE]
  /\ mini' = showPaused(mini)
  /\ fs' = showPaused(fs)
  /\ statusLog' = <<"Paused">>

\* export playSongFromPlaylist(newPlaylist, index)
PlaySongFromPlaylist(newPlaylist, index) ==
  /\ playlist' = newPlaylist
  /\ currentSongIndex' = index
  /\ loadAndPlay(At(newPlaylist, index))
  /\ statusLog' = <<>>
  /\ ev' = [name |-> "playSongFromPlaylist", stale |-> FALSE, len |-> Len(newPlaylist)]
  /\ UNCHANGED <<isShuffleOn, isDragging, probeVars, viewVars>>

\* playNextSong without its isPlaylistEmpty guard.
playNextSongUnguarded(k) ==
  /\ currentSongIndex' = nextSongIndex(currentSongIndex, Len(playlist), isShuffleOn, k)
  /\ loadAndPlay(At(playlist, currentSongIndex'))
  /\ UNCHANGED <<playlist, isShuffleOn>>

\* playNextSong(); k is the value Math.floor(Math.random() * length) takes.
playNextSong(k) ==
  IF isPlaylistEmpty
  THEN UNCHANGED <<queueVars, audio, pending, mini, fs>> /\ threw' = FALSE
  ELSE /\ currentSongIndex' = nextSongIndex(currentSongIndex, Len(playlist), isShuffleOn, k)
       /\ loadAndPlay(At(playlist, currentSongIndex'))
       /\ UNCHANGED <<playlist, isShuffleOn>>

PlayNextSong ==
  /\ \E k \in RandomIndexes(Len(playlist)) : playNextSong(k)
  /\ statusLog' = <<>>
  /\ ev' = Event("playNextSong")
  /\ UNCHANGED <<isDragging, probeVars, viewVars>>

\* playPrevSong()
PlayPrevSong ==
  /\ IF isPlaylistEmpty
     THEN UNCHANGED <<queueVars, audio, pending, mini, fs>> /\ threw' = FALSE
     ELSE /\ currentSongIndex' = prevSongIndex(currentSongIndex, Len(playlist))
          /\ loadAndPlay(At(playlist, currentSongIndex'))
          /\ UNCHANGED <<playlist, isShuffleOn>>
  /\ statusLog' = <<>>
  /\ ev' = Event("playPrevSong")
  /\ UNCHANGED <<isDragging, probeVars, viewVars>>

\* togglePlayPause()
TogglePlayPause ==
  /\ IF audio.src = Undefined
     THEN UNCHANGED <<audio, pending, mini, fs>> /\ statusLog' = <<>>
     ELSE IF ~audio.paused
          THEN pauseSong /\ UNCHANGED pending
          ELSE /\ Len(pending) < MaxPending
               /\ audio' = audioPlay(audio)
               /\ pending' = Append(pending, "current")
               /\ statusLog' = <<>>
               /\ UNCHANGED <<mini, fs>>
  /\ threw' = FALSE
  /\ ev' = Event("togglePlayPause")
  /\ UNCHANGED <<queueVars, isDragging, probeVars, viewVars>>

\* playSong() after its await, the promise pending[i] fulfilled: the try block.
\* An element whose load failed fulfils no promise of that load.
PlayResolved(i) ==
  /\ audio.failed => pending[i] = "stale"
  /\ pending' = RemoveAt(pending, i)
  /\ mini' = showPlaying(mini)
  /\ fs' = showPlaying(fs)
  /\ statusLog' = <<"Playing">>
  /\ threw' = FALSE
  /\ ev' = [name |-> "playResolved", stale |-> pending[i] = "stale", len |-> 0]
  /\ UNCHANGED <<queueVars, audio, isDragging, probeVars, viewVars>>

\* playSong() without its try/catch: the rejection leaves the handler.
PlayRejectedUncaught(i) ==
  /\ pending' = RemoveAt(pending, i)
  /\ threw' = TRUE
  /\ statusLog' = <<>>
  /\ ev' = [name |-> "playRejected", stale |-> pending[i] = "stale", len |-> 0]
  /\ UNCHANGED <<queueVars, audio, mini, fs, isDragging, probeVars, viewVars>>

\* playSong() whose catch block tries again: it calls playSong().
PlayRejectedRetries(i) ==
  /\ pending' = Append(RemoveAt(pending, i), "current")
  /\ audio' = audioPlay(audio)
  /\ statusLog' = <<>>
  /\ threw' = FALSE
  /\ ev' = [name |-> "playRejected", stale |-> pending[i] = "stale", len |-> 0]
  /\ UNCHANGED <<queueVars, mini, fs, isDragging, probeVars, viewVars>>

\* playSong() after its await, the promise pending[i] rejected: the catch block.
PlayRejected(i) ==
  /\ pending' = RemoveAt(pending, i)
  /\ pauseSong
  /\ threw' = FALSE
  /\ ev' = [name |-> "playRejected", stale |-> pending[i] = "stale", len |-> 0]
  /\ UNCHANGED <<queueVars, isDragging, probeVars, viewVars>>

\* toggleShuffle()
ToggleShuffle ==
  /\ isShuffleOn' = ~isShuffleOn
  /\ mini' = [mini EXCEPT !.shuffle = isShuffleOn']
  /\ fs' = [fs EXCEPT !.shuffle = isShuffleOn']
  /\ statusLog' = <<>>
  /\ threw' = FALSE
  /\ ev' = Event("toggleShuffle")
  /\ UNCHANGED <<playlist, currentSongIndex, audio, pending, isDragging, probeVars, viewVars>>

\* toggleRepeat()
ToggleRepeat ==
  /\ audio' = [audio EXCEPT !.loop = ~audio.loop]
  /\ mini' = [mini EXCEPT !.repeat = audio'.loop]
  /\ fs' = [fs EXCEPT !.repeat = audio'.loop]
  /\ statusLog' = <<>>
  /\ threw' = FALSE
  /\ ev' = Event("toggleRepeat")
  /\ UNCHANGED <<queueVars, pending, isDragging, probeVars, viewVars>>

\* The `ended` listener without its test of dom.audio.loop.
MediaEndIgnoringLoop ==
  /\ audio.src # Undefined
  /\ ~audio.paused
  /\ ~audio.ended
  /\ ~IsNaN(audio.duration)
  /\ \E k \in RandomIndexes(Len(playlist)) : playNextSong(k)
  /\ statusLog' = <<>>
  /\ ev' = Event("ended")
  /\ UNCHANGED <<isDragging, probeVars, viewVars>>

\* The element reaches the end of its media.  With loop set it seeks back to
\* the start and goes on playing, and fires no `ended`; otherwise it fires
\* `ended`, whose listener is `if (!dom.audio.loop) playNextSong()`.
MediaEnd ==
  /\ audio.src # Undefined
  /\ ~audio.paused
  /\ ~audio.ended
  /\ ~IsNaN(audio.duration)
  /\ IF audio.loop
     THEN /\ audio' = [audio EXCEPT !.currentTime = 0]
          /\ threw' = FALSE
          /\ UNCHANGED <<queueVars, pending, mini, fs>>
     ELSE \E k \in RandomIndexes(Len(playlist)) :
            IF isPlaylistEmpty
            THEN /\ audio' = [audio EXCEPT !.currentTime = audio.duration, !.ended = TRUE]
                 /\ threw' = FALSE
                 /\ UNCHANGED <<queueVars, pending, mini, fs>>
            ELSE playNextSong(k)
  /\ statusLog' = <<>>
  /\ ev' = Event("ended")
  /\ UNCHANGED <<isDragging, probeVars, viewVars>>

\* The element gives up loading its source (network error, unsupported or
\* missing file): it fires `error`, for which initPlayer registers no
\* listener, and from then on rejects the play() promises of this load.
LoadFailed ==
  /\ audio.src # Undefined
  /\ IsNaN(audio.duration)
  /\ ~audio.failed
  /\ audio' = [audio EXCEPT !.failed = TRUE]
  /\ statusLog' = <<>>
  /\ threw' = FALSE
  /\ ev' = Event("loadFailed")
  /\ UNCHANGED <<queueVars, pending, mini, fs, isDragging, probeVars, viewVars>>

\* ----------------------------------------------------- progress and seeking
\* updateProgress writing the bar and forgetting the current-time text.
showProgressBarOnly(v, currentTime, duration) ==
  [v EXCEPT !.progress = Frac(currentTime * 100, duration)]

\* What updateProgress writes to a view when the duration is known.
showProgress(v, currentTime, duration) ==
  [v EXCEPT !.progress = Frac(currentTime * 100, duration),
            !.timeCurrent = formatTime(currentTime)]

\* updateProgress without its `if (isDragging) return`.
updateProgressNoGuard ==
  IF (~IsNaN(audio.duration)) /\ audio.duration # 0
  THEN <<[mini EXCEPT !.progress = Frac(audio.currentTime * 100, audio.duration),
                      !.timeCurrent = formatTime(audio.currentTime)],
         [fs EXCEPT !.progress = Frac(audio.currentTime * 100, audio.duration),
                    !.timeCurrent = formatTime(audio.currentTime)]>>
  ELSE <<mini, fs>>

\* updateProgress(): the views after it ran, as <<mini, fs>>.
updateProgress ==
  IF isDragging THEN <<mini, fs>>
  ELSE IF (~IsNaN(audio.duration)) /\ audio.duration # 0
       THEN <<showProgress(mini, audio.currentTime, audio.duration),
              showProgress(fs, audio.currentTime, audio.duration)>>
       ELSE <<mini, fs>>

\* The element's `timeupdate` event, whose listener is updateProgress.
TimeUpdate ==
  /\ audio.src # Undefined
  /\ mini' = updateProgress[1]
  /\ fs' = updateProgress[2]
  /\ statusLog' = <<>>
  /\ threw' = FALSE
  /\ ev' = Event("timeupdate")
  /\ UNCHANGED <<queueVars, audio, pending, isDragging, probeVars, viewVars>>

\* The element's `loadedmetadata` event: the duration of the loaded song is
\* known from now on, and the listener writes it to both total-time displays.
LoadedMetadata ==
  /\ audio.src # Undefined
  /\ IsNaN(audio.duration)
  /\ ~audio.failed
  /\ audio' = [audio EXCEPT !.duration = DurationOf(audio.src)]
  /\ mini' = [mini EXCEPT !.timeTotal = formatTime(audio'.duration)]
  /\ fs' = [fs EXCEPT !.timeTotal = formatTime(audio'.duration)]
  /\ statusLog' = <<>>
  /\ threw' = FALSE
  /\ ev' = Event("loadedmetadata")
  /\ UNCHANGED <<queueVars, pending, isDragging, probeVars, viewVars>>

\* Playback advances by a second (the element's own clock; no listener runs).
Advance ==
  /\ audio.src # Undefined
  /\ ~audio.paused
  /\ ~audio.ended
  /\ ~IsNaN(audio.duration)
  /\ audio.currentTime < audio.duration
  /\ audio' = [audio EXCEPT !.currentTime = @ + 1]
  /\ statusLog' = <<>>
  /\ threw' = FALSE
  /\ ev' = Event("advance")
  /\ UNCHANGED <<queueVars, pending, mini, fs, isDragging, probeVars, viewVars>>

\* setProgressFromInput without its `if (duration)`.
setProgressFromInputUnguarded(a, value) ==
  [a EXCEPT !.currentTime =
     IF IsNaN(a.duration) THEN NaN ELSE (value * a.duration) \div 100]

\* setProgressFromInput(inputElement): the element's new currentTime.
setProgressFromInput(a, value) ==
  IF (~IsNaN(a.duration)) /\ a.duration # 0
  THEN [a EXCEPT !.currentTime = (value * a.duration) \div 100]
  ELSE a

\* The user moves the thumb of the mini-player's bar to `value`: the browser
\* sets the bar's value and fires `input`.
ProgressBarInput(value) ==
  /\ mini' = [mini EXCEPT !.progress = <<value, 1>>]
  /\ audio' = setProgressFromInput(audio, value)
  /\ statusLog' = <<>>
  /\ threw' = FALSE
  /\ ev' = [name |-> "input", stale |-> FALSE, len |-> value]
  /\ UNCHANGED <<queueVars, pending, fs, isDragging, probeVars, viewVars>>

\* The same on the fullscreen player's bar.
FsProgressBarInput(value) ==
  /\ fs' = [fs EXCEPT !.progress = <<value, 1>>]
  /\ audio' = setProgressFromInput(audio, value)
  /\ statusLog' = <<>>
  /\ threw' = FALSE
  /\ ev' = [name |-> "input", stale |-> FALSE, len |-> value]
  /\ UNCHANGED <<queueVars, pending, mini, isDragging, probeVars, viewVars>>

\* startDrag: mousedown / touchstart on either bar.
StartDrag ==
  /\ isDragging' = TRUE
  /\ statusLog' = <<>>
  /\ threw' = FALSE
  /\ ev' = Event("startDrag")
  /\ UNCHANGED <<queueVars, audio, pending, mini, fs, probeVars, viewVars>>

\* endDrag: mouseup / touchend / change on either bar.
EndDrag ==
  /\ isDragging' = FALSE
  /\ statusLog' = <<>>
  /\ threw' = FALSE
  /\ ev' = Event("endDrag")
  /\ UNCHANGED <<queueVars, audio, pending, mini, fs, probeVars, viewVars>>

\* A touch drag on a progress bar is cancelled by the browser (it takes the
\* gesture over, or the touch is interrupted): it fires `touchcancel` on the
\* bar, for which initPlayer registers no listener.  Whether a `change`
\* follows is the browser's choice (EndDrag).
TouchCancel ==
  /\ isDragging
  /\ statusLog' = <<>>
  /\ threw' = FALSE
  /\ ev' = Event("touchcancel")
  /\ UNCHANGED <<queueVars, audio, pending, mini, fs, isDragging, probeVars, viewVars>>

\* ---------------------------------------------------------- specifications
\* The arguments callers pass to playSongFromPlaylist: a list and the index of
\* the clicked song in it ("play all" of an empty list passes index 0).
StartIndexes(items) == IF Len(items) = 0 THEN {0} ELSE 0..(Len(items) - 1)

PlaySongFromPlaylistAny ==
  \E items \in Playlists : \E index \in StartIndexes(items) :
    PlaySongFromPlaylist(items, index)

\* The track-change and play/pause protocol: commands, the settling of play()
\* promises, metadata and end of media.
Next ==
  \/ PlaySongFromPlaylistAny
  \/ PlayNextSong
  \/ PlayPrevSong
  \/ TogglePlayPause
  \/ \E i \in DOMAIN pending : PlayRejected(i)
  \/ \E i \in DOMAIN pending : PlayResolved(i)
  \/ ToggleShuffle
  \/ ToggleRepeat
  \/ LoadedMetadata
  \/ LoadFailed
  \/ MediaEnd

Spec == Init /\ [][Next]_vars

\* search.js starts a song found by a search as a one-song playlist:
\* playSongFromPlaylist([song], 0).
PlaySearchResult == \E song \in Tracks : PlaySongFromPlaylist(<<song>>, 0)

\* Progress and seeking: loads and skips, the element's clock and events, and
\* the user's drags on the two progress bars.
SeekNext ==
  \/ PlaySearchResult
  \/ PlayNextSong
  \/ \E i \in DOMAIN pending : PlayResolved(i)
  \/ LoadedMetadata
  \/ Advance
  \/ TimeUpdate
  \/ \E value \in DragValues : ProgressBarInput(value)
  \/ \E value \in DragValues : FsProgressBarInput(value)
  \/ StartDrag
  \/ EndDrag
  \/ TouchCancel

SeekSpec == Init /\ [][SeekNext]_vars

\* ------------------------------------------- the state API, called directly
\* playerState.js exports `state`; here its methods are called one by one on
\* the module's private variables, with no controller in between.
QueuePlaylists == UNION {[1..n -> Tracks] : n \in 0..MaxQueueLen}

\* setPlaylist's index: a position of the list when it has one (its
\* precondition); any index when the list is empty.
QueueStartIndexes(items) ==
  IF Len(items) = 0 THEN 0..(MaxQueueLen - 1) ELSE 0..(Len(items) - 1)

QueueFrame ==
  UNCHANGED <<audio, pending, mini, fs, isDragging, statusLog, threw, viewVars>>

\* setPlaylist putting the cursor at 0 when the new list is empty.
SetPlaylistResetsEmptyCursor(newPlaylist, index) ==
  /\ playlist' = newPlaylist
  /\ currentSongIndex' = IF Len(newPlaylist) = 0 THEN 0 ELSE index
  /\ ret' = Undefined
  /\ runStart' = index
  /\ runCount' = 0
  /\ toggleLog' = <<>>
  /\ ev' = [name |-> "setPlaylist", stale |-> FALSE, len |-> Len(newPlaylist),
            items |-> newPlaylist]
  /\ UNCHANGED isShuffleOn
  /\ QueueFrame

\* state.setPlaylist(newPlaylist, index)
SetPlaylist(newPlaylist, index) ==
  /\ playlist' = newPlaylist
  /\ currentSongIndex' = index
  /\ ret' = Undefined
  /\ runStart' = index
  /\ runCount' = 0
  /\ toggleLog' = <<>>
  /\ ev' = [name |-> "setPlaylist", stale |-> FALSE, len |-> Len(newPlaylist),
            items |-> newPlaylist]
  /\ UNCHANGED isShuffleOn
  /\ QueueFrame

\* state.nextSong()
NextSong ==
  /\ \E k \in RandomIndexes(Len(playlist)) :
       currentSongIndex' = nextSongIndex(currentSongIndex, Len(playlist), isShuffleOn, k)
  /\ ret' = At(playlist, currentSongIndex')
  /\ IF isShuffleOn \/ isPlaylistEmpty
     THEN runStart' = currentSongIndex /\ runCount' = 0
     ELSE IF runCount = 0 \/ runCount >= Len(playlist)
          THEN runStart' = currentSongIndex /\ runCount' = 1
          ELSE runStart' = runStart /\ runCount' = runCount + 1
  /\ toggleLog' = <<>>
  /\ ev' = Event("nextSong")
  /\ UNCHANGED <<playlist, isShuffleOn>>
  /\ QueueFrame

\* state.prevSong()
PrevSong ==
  /\ currentSongIndex' = prevSongIndex(currentSongIndex, Len(playlist))
  /\ ret' = At(playlist, currentSongIndex')
  /\ runStart' = currentSongIndex
  /\ runCount' = 0
  /\ toggleLog' = <<>>
  /\ ev' = Event("prevSong")
  /\ UNCHANGED <<playlist, isShuffleOn>>
  /\ QueueFrame

\* The flags before the last two consecutive toggleShuffle calls.
LogToggle ==
  IF Len(toggleLog) < 2 THEN Append(toggleLog, isShuffleOn)
  ELSE <<toggleLog[2], isShuffleOn>>

\* toggleShuffle as a switch that only turns shuffle on.
StateToggleShuffleOnOnly ==
  /\ isShuffleOn' = TRUE
  /\ ret' = isShuffleOn'
  /\ runStart' = currentSongIndex
  /\ runCount' = 0
  /\ toggleLog' = LogToggle
  /\ ev' = Event("toggleShuffle")
  /\ UNCHANGED <<playlist, currentSongIndex>>
  /\ QueueFrame

\* state.toggleShuffle(): returns the new flag.
StateToggleShuffle ==
  /\ isShuffleOn' = ~isShuffleOn
  /\ ret' = isShuffleOn'
  /\ runStart' = currentSongIndex
  /\ runCount' = 0
  /\ toggleLog' = LogToggle
  /\ ev' = Event("toggleShuffle")
  /\ UNCHANGED <<playlist, currentSongIndex>>
  /\ QueueFrame

QueueNext ==
  \/ \E items \in QueuePlaylists : \E index \in QueueStartIndexes(items) :
       SetPlaylist(items, index)
  \/ NextSong
  \/ PrevSong
  \/ StateToggleShuffle

QueueSpec == Init /\ [][QueueNext]_vars

\* ------------------------------------- fullscreen player and volume slider
\* handleTouchEnd's threshold, in pixels of screenY.
SwipeThreshold == 100

\* screenY positions of a touch.
TouchYs == {200, 300, 340, 400, 401, 450}

\* Values the volume slider's `input` event can carry, in percent.
VolumeInputs == {-50, 0, 40, 100, 150}

\* Elements of the fullscreen player a touch can start on: its progress bar,
\* or anything else of it (artwork, titles, background).
Targets == {"fsProgressBar", "other"}

\* The two progress bars, which handleTouchMove compares e.target with.
SeekControls == {"progressBar", "fsProgressBar"}

\* What a handler of the fullscreen player or of the volume slider leaves alone.
ViewFrame == UNCHANGED <<queueVars, pending, mini, fs, probeVars>>

\* openFullscreenPlayer(), the click listener of the open button and of the
\* song info: adding a listener that is already attached changes nothing.
OpenFullscreenPlayer ==
  /\ ~finger.down
  /\ fsOpen' = TRUE
  /\ listening' = TRUE
  /\ closeTimer' = 0
  /\ statusLog' = <<>>
  /\ threw' = FALSE
  /\ ev' = Event("openFullscreenPlayer")
  /\ UNCHANGED <<audio, isDragging, timers, touchstartY, touchEndY, finger>>
  /\ ViewFrame

\* closeFullscreenPlayer(): the class goes at once, the listeners are removed
\* by a timer.
closeFullscreenPlayer ==
  /\ timers < MaxTimers
  /\ fsOpen' = FALSE
  /\ timers' = timers + 1
  /\ closeTimer' = IF fsOpen THEN timers' ELSE closeTimer
  /\ UNCHANGED listening

\* The click listener of the close button, which is part of the fullscreen
\* player and on screen with it.
CloseFullscreenPlayer ==
  /\ ~finger.down
  /\ fsOpen \/ timers > 0
  /\ closeFullscreenPlayer
  /\ statusLog' = <<>>
  /\ threw' = FALSE
  /\ ev' = Event("closeFullscreenPlayer")
  /\ UNCHANGED <<audio, isDragging, touchstartY, touchEndY, finger>>
  /\ ViewFrame

\* A timer set by closeFullscreenPlayer expires: its callback removes the
\* three touch listeners.
RemoveListeners ==
  /\ timers > 0
  /\ timers' = timers - 1
  /\ closeTimer' = IF closeTimer > 0 THEN closeTimer - 1 ELSE 0
  /\ listening' = FALSE
  /\ statusLog' = <<>>
  /\ threw' = FALSE
  /\ ev' = Event("removeListeners")
  /\ UNCHANGED <<audio, isDragging, fsOpen, touchstartY, touchEndY, finger>>
  /\ ViewFrame

\* A finger goes down at screenY = y on `target`, an element of the
\* fullscreen player, which is on screen while open and while it slides out.
\* On the progress bar its own listener startDrag runs; the event bubbles to
\* the fullscreen player, where handleTouchStart runs if the listeners are
\* attached.
TouchStart(y, target) ==
  /\ ~finger.down
  /\ fsOpen \/ timers > 0
  /\ finger' = [down |-> TRUE, y |-> y, target |-> target]
  /\ isDragging' = IF target \in SeekControls THEN TRUE ELSE isDragging
  /\ touchstartY' = IF listening THEN y ELSE touchstartY
  /\ statusLog' = <<>>
  /\ threw' = FALSE
  /\ ev' = [name |-> "touchstart", stale |-> FALSE, len |-> y, target |-> target]
  /\ UNCHANGED <<audio, fsOpen, listening, timers, closeTimer, touchEndY>>
  /\ ViewFrame

\* handleTouchMove(e): whether it calls e.preventDefault().  The player with
\* the class "open" is the one whose computed visibility is "visible".
handleTouchMove(target) ==
  LET isFullyOpen == fsOpen
  IN isFullyOpen /\ target \notin SeekControls

\* The finger moves; handleTouchMove runs if the listeners are attached.  The
\* event records whether its default action (scrolling) was prevented.
TouchMove ==
  /\ finger.down
  /\ statusLog' = <<>>
  /\ threw' = FALSE
  /\ ev' = [name |-> "touchmove", stale |-> FALSE, len |-> 0,
            target |-> finger.target,
            prevented |-> listening /\ handleTouchMove(finger.target)]
  /\ UNCHANGED <<audio, isDragging, viewVars>>
  /\ ViewFrame

\* handleTouchEnd(e), y being e.changedTouches[0].screenY.
handleTouchEnd(y) ==
  /\ touchEndY' = y
  /\ IF touchEndY' > touchstartY + SwipeThreshold
     THEN closeFullscreenPlayer
     ELSE UNCHANGED <<fsOpen, listening, timers, closeTimer>>

\* The finger is lifted at screenY = y.  On the progress bar its own listener
\* endDrag runs; on the fullscreen player handleTouchEnd runs if the listeners
\* are attached.  The event records the distance the finger travelled.
TouchEnd(y) ==
  /\ finger.down
  /\ finger' = NoFinger
  /\ isDragging' = IF finger.target \in SeekControls THEN FALSE ELSE isDragging
  /\ IF listening
     THEN handleTouchEnd(y)
     ELSE UNCHANGED <<fsOpen, listening, timers, closeTimer, touchEndY>>
  /\ statusLog' = <<>>
  /\ threw' = FALSE
  /\ ev' = [name |-> "touchend", stale |-> FALSE, len |-> y - finger.y,
            target |-> finger.target]
  /\ UNCHANGED <<audio, touchstartY>>
  /\ ViewFrame

\* The volume slider's `input` listener: dom.audio.volume = value / 100.  The
\* element takes a volume of 0..1 and throws an IndexSizeError on any other,
\* keeping the volume it had; the exception leaves the listener.
VolumeInput(value) ==
  /\ IF value \in 0..100
     THEN audio' = [audio EXCEPT !.volume = value] /\ threw' = FALSE
     ELSE audio' = audio /\ threw' = TRUE
  /\ statusLog' = <<>>
  /\ ev' = [name |-> "volumeInput", stale |-> FALSE, len |-> value]
  /\ UNCHANGED <<isDragging, viewVars>>
  /\ ViewFrame

ViewNext ==
  \/ OpenFullscreenPlayer
  \/ CloseFullscreenPlayer
  \/ RemoveListeners
  \/ \E y \in TouchYs : \E target \in Targets : TouchStart(y, target)
  \/ TouchMove
  \/ \E y \in TouchYs : TouchEnd(y)
  \/ \E value \in VolumeInputs : VolumeInput(value)

ViewSpec == Init /\ [][ViewNext]_vars

\* ------------------------------------------ track changes and the settings
\* "Play all": the whole library in order, started at any of its songs.
AllTracks == [i \in 1..NumTracks |-> i]

PlayAll ==
  \E index \in StartIndexes(AllTracks) : PlaySongFromPlaylist(AllTracks, index)

\* Track changes (load, skips, end of media) with every setting they could
\* disturb in play: shuffle, repeat, the volume and a drag on a progress bar.
FrameNext ==
  \/ PlayAll
  \/ PlayNextSong
  \/ PlayPrevSong
  \/ \E i \in DOMAIN pending : PlayResolved(i)
  \/ LoadedMetadata
  \/ MediaEnd
  \/ ToggleShuffle
  \/ ToggleRepeat
  \/ StartDrag
  \/ EndDrag
  \/ TimeUpdate
  \/ \E value \in VolumeInputs : VolumeInput(value)

FrameSpec == Init /\ [][FrameNext]_vars

\* ------------------------------------------------------------------ claims
\* C1 (as claimed): a step that settles a play() promise of an earlier load,
\* fulfilled or rejected, changes nothing observable: neither view and nothing
\* of the audio element.
C1_StaleSettlementUnobservable ==
  [][(ev'.name \in {"playResolved", "playRejected"} /\ ev'.stale
        /\ Len(pending') < Len(pending))
      => (mini' = mini /\ fs' = fs /\ audio' = audio)]_vars

\* C2: whenever the playlist is non-empty the cursor is one of its positions,
\* after any sequence of setPlaylist (index inside the list), nextSong,
\* prevSong and toggleShuffle.
C2_CursorValid ==
  Len(playlist) > 0 => currentSongIndex \in 0..(Len(playlist) - 1)

\* C2's case: the cursor wrapped backwards from 0 to the last of three songs
\* with shuffle on.
C2_Witness ==
  /\ ev.name = "prevSong" /\ isShuffleOn
  /\ Len(playlist) = 3 /\ runStart = 0 /\ currentSongIndex = 2

\* C3: while isDragging is true a `timeupdate` changes nothing in either view:
\* both bars and both current-time texts stay as they were.
C3_NoProgressWhileDragging ==
  [][(isDragging /\ ev'.name = "timeupdate") => (mini' = mini /\ fs' = fs)]_vars

\* C3's case: a `timeupdate` arrived during a drag while the element's position
\* differed from the one displayed.
C3_Witness ==
  /\ ev.name = "timeupdate" /\ isDragging
  /\ ~IsNaN(audio.duration)
  /\ mini.timeCurrent # formatTime(audio.currentTime)
  /\ fs.timeCurrent # formatTime(audio.currentTime)

\* What a view shows when it shows the element's current position.
ShowsPosition(v) ==
  /\ v.timeCurrent = formatTime(audio.currentTime)
  /\ (~IsNaN(audio.duration)) => v.progress = Frac(audio.currentTime * 100, audio.duration)

\* C4 (as claimed): isDragging has just been set back to false; the very next
\* event is a `timeupdate`, and it makes both views show the element's current
\* position.
C4_NextProgressShown ==
  [][(ev.name = "endDrag" /\ ev'.name = "timeupdate")
      => (ShowsPosition(mini)' /\ ShowsPosition(fs)')]_vars

\* C4 (amended): with no drag in progress a `timeupdate` makes both views show
\* the element's current position when the duration is known, and changes
\* neither view when it is not.
C4_NextProgressShownIfDurationKnown ==
  [][(ev'.name = "timeupdate" /\ ~isDragging)
      => IF IsNaN(audio.duration)
         THEN mini' = mini /\ fs' = fs
         ELSE ShowsPosition(mini)' /\ ShowsPosition(fs)']_vars

\* C4's case: a `timeupdate` with no drag in progress and the duration known
\* moved the display to a position past the start.
C4_Witness ==
  /\ ev.name = "timeupdate" /\ ~isDragging
  /\ ~IsNaN(audio.duration)
  /\ audio.currentTime > 0
  /\ ShowsPosition(mini) /\ ShowsPosition(fs)

\* C5: when the play() promise of the loaded song is rejected, the catch block
\* leaves both views Paused and the element paused, writes Paused exactly once,
\* and no exception leaves the handler.
C5_RejectionCaught ==
  (ev.name = "playRejected" /\ ~ev.stale)
    => /\ mini.status = "Paused" /\ fs.status = "Paused"
       /\ ~mini.disc /\ ~fs.disc
       /\ audio.paused
       /\ statusLog = <<"Paused">>
       /\ ~threw

\* C5's case: the promise of the loaded song was rejected.
C5_Witness ==
  ev.name = "playRejected" /\ ~ev.stale /\ audio.src # Undefined /\ pending = <<>>

\* C6 (as claimed): playSongFromPlaylist with an empty list raises nothing and
\* changes neither the queue, nor the element, nor the promises, nor a view.
C6_EmptyLoadIsNoOp ==
  [][(ev'.name = "playSongFromPlaylist" /\ ev'.len = 0)
      => (~threw' /\ UNCHANGED <<queueVars, audio, pending, mini, fs>>)]_vars

\* What playNextSong does, stated from the state before it.
SkipNextOutcome ==
  IF Len(playlist) = 0
  THEN UNCHANGED <<queueVars, pending, mini, fs>>
  ELSE \E k \in 0..(Len(playlist) - 1) :
         LET i == IF isShuffleOn THEN k ELSE (currentSongIndex + 1) % Len(playlist)
         IN /\ currentSongIndex' = i
            /\ audio'.src = playlist[i + 1]
            /\ ~audio'.paused
            /\ mini'.track = playlist[i + 1]
            /\ fs'.track = playlist[i + 1]
            /\ Len(pending') = Len(pending) + 1
            /\ pending'[Len(pending')] = "current"

\* C7: at the end of the media, with loop (repeat-one) set the same song plays
\* again from the start and the cursor stays; with loop unset the engine does
\* what playNextSong does.
C7_EndOfMedia ==
  [][ev'.name = "ended"
      => IF audio.loop
         THEN /\ UNCHANGED <<queueVars, pending, mini, fs>>
              /\ audio'.src = audio.src
              /\ audio'.currentTime = 0
              /\ ~audio'.paused /\ ~audio'.ended
         ELSE SkipNextOutcome]_vars

\* C7's cases: the media ended with repeat-one set, the song restarted.
C7_Witness ==
  /\ ev.name = "ended" /\ audio.loop
  /\ audio.currentTime = 0 /\ ~audio.paused
  /\ Len(playlist) = 2 /\ audio.src = playlist[currentSongIndex + 1]

\* C8: with shuffle off and a non-empty playlist nextSong sets the cursor to
\* (cursor + 1) mod length and returns the song at it.
C8_NextSequential ==
  [][(ev'.name = "nextSong" /\ ~isShuffleOn /\ Len(playlist) > 0)
      => /\ currentSongIndex' = (currentSongIndex + 1) % Len(playlist)
         /\ ret' = playlist[currentSongIndex' + 1]]_vars

\* C8's case: three sequential nextSong calls on three songs from index 0,
\* the last one wrapping to index 0.
C8_Witness ==
  /\ ev.name = "nextSong" /\ ~isShuffleOn
  /\ Len(playlist) = 3 /\ runStart = 0 /\ runCount = 3 /\ currentSongIndex = 0
  /\ ret = playlist[1]

\* C9: with shuffle off, after as many consecutive nextSong calls as the
\* playlist has songs the cursor is where it was before the first of them.
C9_NextCycle ==
  (runCount > 0 /\ runCount = Len(playlist)) => currentSongIndex = runStart

\* C9's case: a full cycle over three songs that started in the middle.
C9_Witness ==
  /\ ev.name = "nextSong"
  /\ Len(playlist) = 3 /\ runCount = 3 /\ runStart = 1 /\ currentSongIndex = 1

\* C10: on a non-empty playlist prevSong sets the cursor to
\* (cursor - 1 + length) mod length, whether shuffle is on or off.
C10_PrevSequential ==
  [][(ev'.name = "prevSong" /\ Len(playlist) > 0)
      => /\ currentSongIndex' = (currentSongIndex - 1 + Len(playlist)) % Len(playlist)
         /\ ret' = playlist[currentSongIndex' + 1]]_vars

\* C10's case: prevSong with shuffle on, from index 0 of two or more songs,
\* wrapped to the last index.
C10_Witness ==
  /\ ev.name = "prevSong" /\ isShuffleOn
  /\ Len(playlist) >= 2 /\ runStart = 0 /\ currentSongIndex = Len(playlist) - 1

\* C11: with shuffle on and a non-empty playlist, nextSong can move the cursor
\* to every position of the playlist, the one it is at included, returning
\* the song there; it can move it nowhere else.
C11_ShuffleAnyIndex ==
  (isShuffleOn /\ Len(playlist) > 0)
    => /\ \A j \in 0..(Len(playlist) - 1) :
            ENABLED (NextSong /\ currentSongIndex' = j /\ ret' = playlist[j + 1])
       /\ ~ENABLED (NextSong /\ currentSongIndex' \notin 0..(Len(playlist) - 1))

\* C11's case: a shuffled nextSong on three songs left the cursor where it
\* was, so the same song was returned again.
C11_Witness ==
  /\ ev.name = "nextSong" /\ isShuffleOn
  /\ Len(playlist) = 3 /\ runStart = currentSongIndex
  /\ ret = playlist[currentSongIndex + 1]

\* C12: toggleShuffle flips the shuffle flag, returns the new flag and leaves
\* the playlist and the cursor alone; the second of two consecutive calls
\* brings the flag back to what it was before the first, and when that was
\* off a nextSong that follows is the sequential step again.
C12_ToggleShuffle ==
  [][/\ ev'.name = "toggleShuffle"
          => /\ isShuffleOn' = ~isShuffleOn
             /\ ret' = isShuffleOn'
             /\ UNCHANGED <<playlist, currentSongIndex>>
             /\ Len(toggleLog') = 2 => isShuffleOn' = toggleLog'[1]
     /\ (ev'.name = "nextSong" /\ Len(toggleLog) = 2 /\ ~toggleLog[1]
           /\ Len(playlist) > 0)
          => currentSongIndex' = (currentSongIndex + 1) % Len(playlist)]_vars

\* C12's case: shuffle was off, toggleShuffle was called twice in a row on
\* three songs with the cursor on the last, and the flag is off again.
C12_Witness ==
  /\ ev.name = "toggleShuffle" /\ Len(toggleLog) = 2
  /\ toggleLog = <<FALSE, TRUE>> /\ ~isShuffleOn /\ ret = FALSE
  /\ Len(playlist) = 3 /\ currentSongIndex = 2

\* C13 (as claimed): nextSong on an empty playlist returns undefined and
\* leaves the playlist, the cursor and the shuffle flag as they were.
C13_NextOnEmptyIsNoOp ==
  [][(ev'.name = "nextSong" /\ Len(playlist) = 0)
      => (ret' = Undefined /\ UNCHANGED queueVars)]_vars

\* What setPlaylist leaves alone: the shuffle flag and everything outside the
\* three variables of playerState.js.
SetPlaylistFrame == UNCHANGED <<isShuffleOn, audio, pending, mini, fs, isDragging>>

C15_EmptyCommandsAreNoOps ==
  [][(\/ ev'.name \in {"playNextSong", "playPrevSong"} /\ Len(playlist) = 0
      \/ ev'.name = "togglePlayPause" /\ audio.src = Undefined)
      => (~threw' /\ statusLog' = <<>>
          /\ UNCHANGED <<queueVars, audio, pending, mini, fs, isDragging>>)]_vars

\* C15's case: playNextSong ran on an empty playlist while the element still
\* held the song of an earlier playlist, playing.
C15_Witness ==
  /\ ev.name = "playNextSong" /\ Len(playlist) = 0 /\ ~threw
  /\ audio.src # Undefined /\ ~audio.paused /\ mini.status = "Playing"

\* C16 (as claimed): with a song loaded and no play() promise pending,
\* togglePlayPause pauses the element when the views show Playing and calls
\* play() when they show Paused.
C16_ToggleFollowsStatus ==
  [][(ev'.name = "togglePlayPause" /\ audio.src # Undefined /\ pending = <<>>)
      => IF mini.status = "Playing"
         THEN audio'.paused /\ mini'.status = "Paused" /\ pending' = <<>>
         ELSE (~audio'.paused) /\ pending' = <<"current">>]_vars

\* C17: an `input` on a progress bar at `value` percent sets the element's
\* position to value / 100 of its duration when the duration is known (50 of
\* 200 seconds gives 100) and writes nothing to the element when it is not;
\* in both cases the queue, the promises and the drag flag stay as they were.
C17_SeekToFraction ==
  [][ev'.name = "input"
      => /\ IF IsNaN(audio.duration)
            THEN audio' = audio
            ELSE /\ audio'.currentTime * 100 = ev'.len * audio.duration
                 /\ audio' = [audio EXCEPT !.currentTime = audio'.currentTime]
         /\ UNCHANGED <<queueVars, pending, isDragging>>
         /\ setProgressFromInput([InitAudio EXCEPT !.duration = 200], 50).currentTime
              = 100]_vars

\* C17's case: a seek to 50 percent of a four-second song put the element at
\* second 2.
C17_Witness ==
  /\ ev.name = "input" /\ ev.len = 50
  /\ audio.duration = 4 /\ audio.currentTime = 2

\* The steps the engine takes on its own: the settling of a play() promise
\* and the element's events.  All others are commands of a caller.
OwnSteps == {"playResolved", "playRejected", "loadedmetadata", "loadFailed", "ended"}

\* C19 (as claimed): when the load of the current song has failed and the
\* engine learns of it by the rejection of that load's play() promise, both
\* views show the status Error.
C19_LoadFailureShowsError ==
  [][(ev'.name = "playRejected" /\ ~ev'.stale /\ audio.failed)
      => (mini'.status = "Error" /\ fs'.status = "Error")]_vars

\* C19 (amended): the failure itself changes no view; the rejection of that
\* load's play() promise leaves both views Paused and the element paused, and
\* no exception leaves the handler; while the load is failed no step the
\* engine takes on its own loads a song or calls play().
C19_LoadFailureShowsPaused ==
  [][/\ ev'.name = "loadFailed" => UNCHANGED <<queueVars, pending, mini, fs>>
     /\ (ev'.name = "playRejected" /\ ~ev'.stale /\ audio.failed)
          => /\ mini'.status = "Paused" /\ fs'.status = "Paused"
             /\ audio'.paused /\ ~threw'
     /\ (ev'.name \in OwnSteps /\ audio.failed)
          => /\ audio'.src = audio.src
             /\ Len(pending') <= Len(pending)
             /\ \A i \in DOMAIN pending' : \E j \in DOMAIN pending : pending'[i] = pending[j]
             /\ UNCHANGED queueVars]_vars

\* C19's case: the load of the current song failed, its play() promise was
\* rejected, nothing is pending; the views show Paused.
C19_Witness ==
  /\ ev.name = "playRejected" /\ ~ev.stale /\ audio.failed
  /\ pending = <<>> /\ mini.status = "Paused" /\ fs.status = "Paused"

\* v clamped to the slider's range 0..100 (a volume of 0..1).
Clamp(v) == IF v < 0 THEN 0 ELSE IF v > 100 THEN 100 ELSE v

\* C18 (as claimed): whatever value the volume slider reports, below 0 and
\* above 100 included, the element's volume becomes that value clamped to
\* 0..1, and nothing is raised.
C18_VolumeClamped ==
  [][ev'.name = "volumeInput"
      => (audio'.volume = Clamp(ev'.len) /\ ~threw')]_vars

\* C20 (as claimed): when a touch ends on the open fullscreen player, the
\* player closes if and only if the finger travelled more than 100 down the
\* screen.
C20_SwipeClosesIffOverThreshold ==
  [][(ev'.name = "touchend" /\ fsOpen)
      => (~fsOpen' <=> ev'.len > SwipeThreshold)]_vars

\* C21 (as claimed): the step that closes the fullscreen player leaves its
\* touch listeners as they are and schedules their removal; the listeners of
\* a closed player are then removed by nothing but the timer of the close
\* that closed it, when that timer fires.
C21_ListenersUntilOwnTimer ==
  [][/\ (fsOpen /\ ~fsOpen') => (listening' = listening /\ timers' = timers + 1)
     /\ (~fsOpen /\ listening /\ ~listening')
          => (ev'.name = "removeListeners" /\ closeTimer = 1)
     /\ (ev'.name = "removeListeners" /\ closeTimer = 1) => ~listening']_vars

\* C22 (as claimed): while the fullscreen player is open, a touch-move on
\* anything but a progress bar has its default action prevented, and a
\* touch-move on a progress bar never has.
C22_ScrollSuppressedExceptSeek ==
  [][(ev'.name = "touchmove" /\ fsOpen)
      => (ev'.prevented <=> ev'.target \notin SeekControls)]_vars

\* C24 (as claimed): whenever the fullscreen player is open its touch
\* listeners are attached.
C24_OpenImpliesListening == fsOpen => listening

\* C30 (as claimed): a touch that started on a progress bar of the open
\* fullscreen player leaves the player open when it ends, however far the
\* finger travelled.
C30_SeekGestureNeverDismisses ==
  [][(ev'.name = "touchend" /\ ev'.target \in SeekControls /\ fsOpen) => fsOpen']_vars

\* The steps of the engine C23 names: loads and skips, the settling of a
\* play() promise, pause, the two toggles, and a progress event (a
\* `timeupdate` is propagated when no drag is on and the duration is known).
EngineStep ==
  \/ ev'.name \in {"playSongFromPlaylist", "playNextSong", "playPrevSong",
                    "togglePlayPause", "playResolved", "playRejected",
                    "toggleShuffle", "toggleRepeat", "ended"}
  \/ ev'.name = "timeupdate" /\ ~isDragging /\ ~IsNaN(audio.duration)

\* Both views show the same track, status, indicators and progress, and the
\* indicators are the shuffle flag and the element's loop flag.
ViewsAgree ==
  /\ mini.track = fs.track
  /\ mini.status = fs.status
  /\ mini.shuffle = fs.shuffle /\ mini.shuffle = isShuffleOn
  /\ mini.repeat = fs.repeat /\ mini.repeat = audio.loop
  /\ mini.progress = fs.progress

\* C23 (as claimed): after every step of the engine the two views agree.
C23_ViewsConsistent == [][EngineStep => ViewsAgree']_vars

\* C25 (as claimed): the rejection of a play() promise of an earlier load
\* never pauses the element, which by then holds a newer song.
C25_StaleRejectionNeverPauses ==
  [][(ev'.name = "playRejected" /\ ev'.stale /\ ~audio.paused) => ~audio'.paused]_vars

\* C26 (as claimed): whenever the element has a source, it is the song at the
\* playlist's cursor, and both views show that song.
C26_SourceIsCurrentSong ==
  audio.src # Undefined
    => (audio.src = getCurrentSong /\ mini.track = audio.src /\ fs.track = audio.src)

\* C27 (as claimed): whenever no play() promise is pending, both views show
\* Playing exactly when the element is playing (neither paused nor ended).
C27_PlayingIffSinkPlaying ==
  pending = <<>>
    => ((mini.status = "Playing" /\ fs.status = "Playing")
          <=> (audio.src # Undefined /\ ~audio.paused /\ ~audio.ended))

\* C28 (as claimed): every event that finishes a drag on a progress bar, the
\* release or commit that endDrag listens for and the cancelling of the touch
\* alike, leaves isDragging false.
C28_DragEndResetsSeeking ==
  [][ev'.name \in {"endDrag", "touchcancel"} => ~isDragging']_vars

\* C29: a load, a skip in either direction and the end of the media leave the
\* shuffle flag, the loop flag, the volume and isDragging as they were, and
\* both views' indicators with them; so after a track change during a drag a
\* `timeupdate` still writes nothing to either view.
C29_TrackChangeFrame ==
  [][ev'.name \in {"playSongFromPlaylist", "playNextSong", "playPrevSong", "ended"}
      => /\ isShuffleOn' = isShuffleOn
         /\ audio'.loop = audio.loop
         /\ audio'.volume = audio.volume
         /\ isDragging' = isDragging
         /\ mini'.shuffle = mini.shuffle /\ fs'.shuffle = fs.shuffle
         /\ mini'.repeat = mini.repeat /\ fs'.repeat = fs.repeat
         /\ isDragging => (updateProgress' = <<mini', fs'>>)]_vars

\* C29's case: during a drag, with shuffle and repeat on and the volume at 40
\* percent, playPrevSong went from the first of two songs to the second.
C29_Witness ==
  /\ ev.name = "playPrevSong" /\ isDragging /\ isShuffleOn /\ audio.loop
  /\ audio.volume = 40 /\ mini.repeat /\ fs.shuffle
  /\ Len(playlist) = 2 /\ currentSongIndex = 1 /\ audio.src = playlist[2]
  /\ mini.track = playlist[2]

====
